---- MODULE Spec2Model ----
(***************************************************************************)
(* The frame loop of examples/007_basic_triangle.rs: the closure handed to *)
(* event_loop.run, the state it captures, and the pure builders it calls.  *)
(* One handler invocation is one event; the RedrawEventsCleared handler is *)
(* split at its calls into the device layer (rebuild, acquire, flush,      *)
(* wait), whose outcomes are inputs.  No other event is dispatched while   *)
(* a handler is between two of its steps (pc # "idle").                    *)
(***************************************************************************)
EXTENDS Integers, Sequences, FiniteSets, TLC

\* ------------------------------------------------------------------ bounds

\* Most swapchain rebuilds that succeed in one run.
MaxGen == 2
\* Most images a swapchain holds.
MaxImages == 2
\* Number of distinct sizes a Resized event may carry.
NumSizes == 2

\* -------------------------------------------------------- program constants

\* PhysicalSize { width: 1024.0, height: 1024.0 } of the first pipeline.
InitialSize == 1024

Sizes == 1..NumSizes
ImageCounts == 1..MaxImages

\* Option<T>: None is the empty set, Some(x) is {x}.
None == {}
Some(x) == {x}
is_some(o) == o # {}
unwrap(o) == CHOOSE x \in o : TRUE

\* vec![vertex1, vertex2, vertex3], positions in hundredths.
vertex_buffer == << <<-50, -50>>, <<0, 50>>, <<50, -25>> >>

\* clear_values: vec![Some([0.1, 0.1, 0.1, 1.0].into())], in tenths.
ClearColour == <<1, 1, 1, 10>>

VARIABLES
    window_resize_request,  \* Option<PhysicalSize>: the resize flag
    recreate_swapchain,     \* bool: the recreate flag
    frame_buffers,          \* the framebuffer set the closure holds
    pipeline,               \* the pipeline the closure holds
    command_buffers,        \* the command-buffer table
    control_flow,           \* *control_flow
    swap_chain,             \* the engine's swapchain
    released,               \* GPU resources released so far, in order
    pc,                     \* position of the driver thread
    image_i,                \* local of the redraw handler (fresh each tick)
    suboptimal,             \* local of the redraw handler (fresh each tick)
    execution,              \* local of the redraw handler (fresh each tick)
    inFlight,               \* a flushed submission the GPU has not finished
    event,                  \* the event being (or last) handled
    tick,                   \* what the current (or last) redraw tick did
    lastSubmit,             \* the submission of the current (or last) redraw tick
    lastSize,               \* argument of the most recent Resized event
    requested               \* sizes of the Resized events since the last redraw tick began (a set)

progVars == <<window_resize_request, recreate_swapchain, frame_buffers,
              pipeline, command_buffers, control_flow, swap_chain, released>>
localVars == <<image_i, suboptimal, execution>>
histVars == <<event, tick, lastSubmit, lastSize, requested>>
vars == <<progVars, localVars, histVars, pc, inFlight>>

\* ------------------------------------------------------------ pure builders

create_viewport(physical_size) ==
    [origin |-> <<0, 0>>, dimensions |-> physical_size, depth_range |-> <<0, 1>>]

\* gen tags the pipeline object; the viewport is baked in.
create_pipeline(physical_size, gen) ==
    [gen |-> gen, viewport |-> create_viewport(physical_size)]

\* The recording as it would be with the draw issued before the vertex
\* buffer is bound.
record_commands_DrawBeforeBind(framebuffer, pl, vb) ==
    << [op |-> "begin_render_pass", args |-> <<framebuffer, ClearColour>>],
       [op |-> "bind_pipeline_graphics", args |-> <<pl.gen>>],
       [op |-> "draw", args |-> <<Len(vb), 1, 0, 0>>],
       [op |-> "bind_vertex_buffers", args |-> <<0, vb>>],
       [op |-> "end_render_pass", args |-> <<>>] >>

\* The recording made for one framebuffer.
record_commands(framebuffer, pl, vb) ==
    << [op |-> "begin_render_pass", args |-> <<framebuffer, ClearColour>>],
       [op |-> "bind_pipeline_graphics", args |-> <<pl.gen>>],
       [op |-> "bind_vertex_buffers", args |-> <<0, vb>>],
       [op |-> "draw", args |-> <<Len(vb), 1, 0, 0>>],
       [op |-> "end_render_pass", args |-> <<>>] >>

\* One command buffer per framebuffer of the set, in order.  Framebuffer k of
\* set fbs is the pair <<fbs.gen, k>>; table index k+1 is image index k.
create_command_buffers(fbs, pl, vb) ==
    [k \in 1..fbs.count |->
        [framebuffer |-> <<fbs.gen, k - 1>>,
         pipeline |-> pl,
         commands |-> record_commands(<<fbs.gen, k - 1>>, pl, vb)]]

\* --------------------------------------------------------- the device layer

\* GraphicalEngine::create_frame_buffers: a framebuffer per swapchain image.
create_frame_buffers(sc) == [gen |-> sc.gen, count |-> sc.count]

\* GraphicalEngine::recreate_swap_chain_and_images: the swapchains it may
\* build from sc; the call returns None or the framebuffers of one of them.
recreate_swap_chain_and_images(sc) ==
    IF sc.gen < MaxGen
    THEN {[gen |-> sc.gen + 1, count |-> n] : n \in ImageCounts}
    ELSE {}

\* GraphicalEngine::kill: releases the resources the engine owns.
kill == <<"swapchain", "device">>

\* ------------------------------------------------------------------- ticks

\* tick describes the redraw tick in progress or just ended: the flags and
\* resources it found, the sizes requested since the tick before it, how that
\* tick ended (prev) and the steps taken so far.  Handling another event
\* forgets the detail and keeps how the tick ended (ended).
LastStep == IF tick.steps = <<>> THEN "none" ELSE tick.steps[Len(tick.steps)]
EndedWith == IF tick.steps = <<>> THEN tick.ended ELSE LastStep

NewTick == [startResize |-> window_resize_request,
            startRecreate |-> recreate_swapchain,
            startFrameBuffers |-> frame_buffers,
            startPipeline |-> pipeline,
            startCommandBuffers |-> command_buffers,
            requested |-> requested,
            prev |-> EndedWith,
            ended |-> "none",
            steps |-> <<>>,
            held |-> tick.held,
            taken |-> {},
            blocked |-> tick.blocked]

Forget == [startResize |-> None,
           startRecreate |-> FALSE,
           startFrameBuffers |-> frame_buffers,
           startPipeline |-> pipeline,
           startCommandBuffers |-> command_buffers,
           requested |-> {},
           prev |-> "none",
           ended |-> EndedWith,
           steps |-> <<>>,
           held |-> tick.held,
           taken |-> {},
           blocked |-> tick.blocked]

Did(s) == \E k \in 1..Len(tick.steps) : tick.steps[k] = s
Count(S) == Cardinality({k \in 1..Len(tick.steps) : tick.steps[k] \in S})

RebuildSteps == {"rebuild_ok", "rebuild_none"}
AcquireSteps == {"acquire_ok", "acquire_suboptimal", "acquire_outofdate", "acquire_panic"}

\* The three mutexes of the driver and the operations on them: lock() makes a
\* guard, the drop of the guard unlocks.
Mutexes == {"graphical_engine", "frame_buffers", "pipeline"}
Lock(l) == <<"lock", l>>
Unlock(l) == <<"unlock", l>>

\* create_command_buffers: the closure run for each framebuffer binds a guard
\* of the engine and drops it when it returns.
RECURSIVE create_command_buffers_locks(_)
create_command_buffers_locks(n) ==
    IF n = 0 THEN <<>>
    ELSE <<Lock("graphical_engine"), Unlock("graphical_engine")>>
             \o create_command_buffers_locks(n - 1)

\* Setup: every engine guard is a temporary of one let statement; the guards
\* of frame_buffers and pipeline made for the arguments of
\* create_command_buffers live until that call has returned.
SetupLocks(n) ==
    <<Lock("graphical_engine"), Unlock("graphical_engine"),
      Lock("graphical_engine"), Unlock("graphical_engine"),
      Lock("graphical_engine"), Unlock("graphical_engine"),
      Lock("graphical_engine"), Unlock("graphical_engine"),
      Lock("graphical_engine"), Unlock("graphical_engine"),
      Lock("graphical_engine"), Unlock("graphical_engine"),
      Lock("frame_buffers"), Lock("pipeline")>>
    \o create_command_buffers_locks(n)
    \o <<Unlock("pipeline"), Unlock("frame_buffers")>>

\* The lock operations as they would be if the engine guard made for
\* create_pipeline were bound to a variable of the resize block.
LockOps_EngineHeld(s) ==
    CASE s = "rebuild_ok" ->
           <<Lock("graphical_engine"), Lock("frame_buffers"),
             Unlock("frame_buffers"), Unlock("graphical_engine")>>
      [] s = "rebuild_none" -> <<Lock("graphical_engine"), Unlock("graphical_engine")>>
      [] s = "pipeline" -> <<Lock("graphical_engine"), Lock("pipeline")>>
      [] s = "record" ->
           <<Lock("frame_buffers")>>
           \o create_command_buffers_locks(frame_buffers.count)
           \o <<Unlock("frame_buffers"), Unlock("pipeline"),
                Unlock("graphical_engine")>>
      [] s = "build_panic" -> <<Lock("graphical_engine"), Unlock("graphical_engine")>>
      [] s \in AcquireSteps -> <<Lock("graphical_engine"), Unlock("graphical_engine")>>
      [] s = "submit" -> <<Lock("graphical_engine")>>
      [] s = "submit_panic" -> <<Lock("graphical_engine"), Unlock("graphical_engine")>>
      [] s \in {"wait", "wait_panic", "flush_outofdate", "flush_error_logged"} ->
           <<Unlock("graphical_engine")>>
      [] s = "close" -> <<Lock("graphical_engine"), Unlock("graphical_engine")>>
      [] OTHER -> <<>>

\* The lock operations of each step of the closure, in order.  A guard that
\* is a temporary lives to the end of its statement, which for the scrutinee
\* of a match is the end of the match; a guard bound by let lives to the end
\* of its block; a return or a panic drops every guard alive.
LockOps(s) ==
    CASE s = "rebuild_ok" ->
           <<Lock("graphical_engine"), Lock("frame_buffers"),
             Unlock("frame_buffers"), Unlock("graphical_engine")>>
      [] s = "rebuild_none" -> <<Lock("graphical_engine"), Unlock("graphical_engine")>>
      [] s = "pipeline" ->
           <<Lock("graphical_engine"), Unlock("graphical_engine"), Lock("pipeline")>>
      [] s = "record" ->
           <<Lock("frame_buffers")>>
           \o create_command_buffers_locks(frame_buffers.count)
           \o <<Unlock("frame_buffers"), Unlock("pipeline")>>
      [] s = "build_panic" -> <<Lock("graphical_engine"), Unlock("graphical_engine")>>
      [] s \in AcquireSteps -> <<Lock("graphical_engine"), Unlock("graphical_engine")>>
      [] s = "submit" -> <<Lock("graphical_engine")>>
      [] s = "submit_panic" -> <<Lock("graphical_engine"), Unlock("graphical_engine")>>
      [] s \in {"wait", "wait_panic", "flush_outofdate", "flush_error_logged"} ->
           <<Unlock("graphical_engine")>>
      [] s = "close" -> <<Lock("graphical_engine"), Unlock("graphical_engine")>>
      [] OTHER -> <<>>

\* The locks held after the operations ops, starting with h held.
RECURSIVE After(_, _)
After(ops, h) ==
    IF ops = <<>> THEN h
    ELSE After(Tail(ops), IF Head(ops)[1] = "lock" THEN h \cup {Head(ops)[2]}
                                                  ELSE h \ {Head(ops)[2]})

\* Some operation of ops locks a mutex the thread holds at that point: the
\* thread would wait for itself.
RECURSIVE Blocks(_, _)
Blocks(ops, h) ==
    IF ops = <<>> THEN FALSE
    ELSE \/ Head(ops)[1] = "lock" /\ Head(ops)[2] \in h
         \/ Blocks(Tail(ops), After(<<Head(ops)>>, h))

Taken(ops) == {ops[k][2] : k \in {j \in DOMAIN ops : ops[j][1] = "lock"}}

\* t after the lock operations ops.
Locking(t, ops) ==
    [t EXCEPT !.held = After(ops, @),
              !.taken = @ \cup Taken(ops),
              !.blocked = @ \/ Blocks(ops, t.held)]

StepOf(t, s) == Locking([t EXCEPT !.steps = Append(@, s)], LockOps(s))
Step(s) == StepOf(tick, s)


NoSubmit == [cb |-> [framebuffer |-> <<0, 0>>, pipeline |-> create_pipeline(InitialSize, 0),
                     commands |-> <<>>],
             index |-> 0, presented |-> 0, acquired |-> 0,
             frame_buffers |-> [gen |-> 0, count |-> 0],
             pipeline |-> create_pipeline(InitialSize, 0)]

\* -------------------------------------------------------------------- Init

\* The state main() has built when it calls event_loop.run.
Init ==
    /\ \E n \in ImageCounts :
         /\ swap_chain = [gen |-> 0, count |-> n]
         /\ frame_buffers = create_frame_buffers([gen |-> 0, count |-> n])
         /\ command_buffers =
              create_command_buffers(create_frame_buffers([gen |-> 0, count |-> n]),
                                     create_pipeline(InitialSize, 0), vertex_buffer)
    /\ pipeline = create_pipeline(InitialSize, 0)
    /\ window_resize_request = None
    /\ recreate_swapchain = FALSE
    /\ control_flow = "Poll"
    /\ released = <<>>
    /\ pc = "idle"
    /\ image_i = 0
    /\ suboptimal = FALSE
    /\ execution = "none"
    /\ inFlight = FALSE
    /\ event = "none"
    /\ tick = [startResize |-> None, startRecreate |-> FALSE,
               startFrameBuffers |-> frame_buffers, startPipeline |-> pipeline,
               startCommandBuffers |-> command_buffers,
               requested |-> {}, prev |-> "none", ended |-> "none", steps |-> <<>>,
               held |-> After(SetupLocks(frame_buffers.count), {}),
               taken |-> Taken(SetupLocks(frame_buffers.count)),
               blocked |-> Blocks(SetupLocks(frame_buffers.count), {})]
    /\ lastSubmit = NoSubmit
    /\ lastSize = None
    /\ requested = {}

\* --------------------------------------------------------- the event source

\* EventLoop::run: the loop dispatches window events to the closure until a
\* handler returns with ControlFlow::Exit; it then sends LoopDestroyed and
\* stops.
LoopRuns == control_flow # "Exit"
Dispatching == pc \in {"idle", "closed"} /\ LoopRuns

\* ---------------------------------------------------------------- handlers

\* CloseRequested as it would be if the write of ControlFlow::Wait came after
\* the match instead of before it.
CloseRequested_WaitLast ==
    /\ Dispatching
    /\ event' = "CloseRequested"
    /\ control_flow' = "Wait"
    /\ released' = released \o kill
    /\ pc' = "closed"
    /\ UNCHANGED <<window_resize_request, recreate_swapchain, frame_buffers,
                   pipeline, command_buffers, swap_chain, localVars, inFlight,
                   tick, lastSubmit, lastSize, requested>>

\* WindowEvent::CloseRequested: *control_flow = Wait, then = Exit, then kill().
CloseRequested ==
    /\ Dispatching
    /\ event' = "CloseRequested"
    /\ control_flow' = "Exit"
    /\ released' = released \o kill
    /\ pc' = "closed"
    /\ tick' = Locking(tick, LockOps("close"))
    /\ UNCHANGED <<window_resize_request, recreate_swapchain, frame_buffers,
                   pipeline, command_buffers, swap_chain, localVars, inFlight,
                   lastSubmit, lastSize, requested>>

\* Event::LoopDestroyed, sent once after a handler returned with Exit: the
\* closure writes ControlFlow::Wait and matches the `_` arm; the loop is over.
LoopDestroyed ==
    /\ pc = "closed"
    /\ ~LoopRuns
    /\ event' = "LoopDestroyed"
    /\ control_flow' = "Wait"
    /\ pc' = "halted"
    /\ UNCHANGED <<window_resize_request, recreate_swapchain, frame_buffers,
                   pipeline, command_buffers, swap_chain, released, localVars,
                   inFlight, tick, lastSubmit, lastSize, requested>>

\* Resized as it would be if a pending request were kept (get_or_insert).
Resized_KeepsFirst ==
    /\ Dispatching
    /\ \E new_size \in Sizes :
         /\ window_resize_request' =
              IF is_some(window_resize_request) THEN window_resize_request
              ELSE Some(new_size)
         /\ lastSize' = Some(new_size)
         /\ requested' = requested \cup {new_size}
    /\ event' = "Resized"
    /\ control_flow' = "Wait"
    /\ tick' = Forget
    /\ lastSubmit' = NoSubmit
    /\ UNCHANGED <<recreate_swapchain, frame_buffers, pipeline, command_buffers,
                   swap_chain, released, localVars, inFlight, pc>>

\* Resized as it would be if it also asked for a swapchain rebuild.
Resized_SetsRecreate ==
    /\ Dispatching
    /\ \E new_size \in Sizes :
         /\ window_resize_request' = Some(new_size)
         /\ lastSize' = Some(new_size)
         /\ requested' = requested \cup {new_size}
    /\ recreate_swapchain' = TRUE
    /\ event' = "Resized"
    /\ control_flow' = "Wait"
    /\ tick' = Forget
    /\ lastSubmit' = NoSubmit
    /\ UNCHANGED <<frame_buffers, pipeline, command_buffers,
                   swap_chain, released, localVars, inFlight, pc>>

\* WindowEvent::Resized(new_size).
Resized ==
    /\ Dispatching
    /\ \E new_size \in Sizes :
         /\ window_resize_request' = Some(new_size)
         /\ lastSize' = Some(new_size)
         /\ requested' = requested \cup {new_size}
    /\ event' = "Resized"
    /\ control_flow' = "Wait"
    /\ tick' = Forget
    /\ lastSubmit' = NoSubmit
    /\ UNCHANGED <<recreate_swapchain, frame_buffers, pipeline, command_buffers,
                   swap_chain, released, localVars, inFlight, pc>>

\* RedrawRequested, MainEventsCleared and every other event.
OtherEvent ==
    /\ Dispatching
    /\ event # "Other"
    /\ event' = "Other"
    /\ control_flow' = "Wait"
    /\ tick' = Forget
    /\ lastSubmit' = NoSubmit
    /\ UNCHANGED <<window_resize_request, recreate_swapchain, frame_buffers,
                   pipeline, command_buffers, swap_chain, released, localVars,
                   inFlight, pc, lastSize, requested>>

\* Event::RedrawEventsCleared, up to the test of the two flags.
RedrawEventsCleared ==
    /\ Dispatching
    /\ event' = "RedrawEventsCleared"
    /\ control_flow' = "Wait"
    /\ tick' = NewTick
    /\ requested' = {}
    /\ lastSubmit' = NoSubmit
    /\ image_i' = 0 /\ suboptimal' = FALSE /\ execution' = "none"
    /\ pc' = IF is_some(window_resize_request) \/ recreate_swapchain
             THEN "rebuild" ELSE "acquire"
    /\ UNCHANGED <<window_resize_request, recreate_swapchain, frame_buffers,
                   pipeline, command_buffers, swap_chain, released,
                   inFlight, lastSize>>

\* The Some arm as it would be without recreate_swapchain = false.
RecreateSome_KeepsFlag ==
    \E sc \in recreate_swap_chain_and_images(swap_chain) :
        /\ swap_chain' = sc
        /\ frame_buffers' = create_frame_buffers(sc)
        /\ UNCHANGED <<recreate_swapchain, pipeline, command_buffers>>
        /\ tick' = Step("rebuild_ok")
        /\ pc' = IF is_some(window_resize_request) THEN "pipeline" ELSE "acquire"

\* The Some arm as it would be if the tick ended after a successful rebuild.
RecreateSome_Returns ==
    \E sc \in recreate_swap_chain_and_images(swap_chain) :
        /\ swap_chain' = sc
        /\ frame_buffers' = create_frame_buffers(sc)
        /\ recreate_swapchain' = FALSE
        /\ UNCHANGED <<pipeline, command_buffers>>
        /\ tick' = Step("rebuild_ok")
        /\ pc' = "idle"

\* The Some arm as it would be if it re-recorded the command buffers for the
\* new framebuffers itself.
RecreateSome_Rerecords ==
    \E sc \in recreate_swap_chain_and_images(swap_chain) :
        /\ swap_chain' = sc
        /\ frame_buffers' = create_frame_buffers(sc)
        /\ recreate_swapchain' = FALSE
        /\ command_buffers' =
              create_command_buffers(create_frame_buffers(sc), pipeline, vertex_buffer)
        /\ UNCHANGED pipeline
        /\ tick' = Step("rebuild_ok")
        /\ pc' = IF is_some(window_resize_request) THEN "pipeline" ELSE "acquire"

\* Some(new_frame_buffers) => { *frame_buffers_lock = ..; recreate_swapchain = false }
RecreateSome ==
    \E sc \in recreate_swap_chain_and_images(swap_chain) :
        /\ swap_chain' = sc
        /\ frame_buffers' = create_frame_buffers(sc)
        /\ recreate_swapchain' = FALSE
        /\ UNCHANGED <<pipeline, command_buffers>>
        /\ tick' = Step("rebuild_ok")
        /\ pc' = IF is_some(window_resize_request) THEN "pipeline" ELSE "acquire"

\* The None arm as it would be if the flag were cleared before the match.
RecreateNone_ClearsFlag ==
    /\ tick' = Step("rebuild_none")
    /\ pc' = "idle"
    /\ recreate_swapchain' = FALSE
    /\ UNCHANGED <<swap_chain, frame_buffers, pipeline, command_buffers>>

\* None => { log::error!(..); return }
RecreateNone ==
    /\ tick' = Step("rebuild_none")
    /\ pc' = "idle"
    /\ UNCHANGED <<swap_chain, frame_buffers, recreate_swapchain, pipeline,
                   command_buffers>>

\* match graphical_engine.lock().unwrap().recreate_swap_chain_and_images(..)
RecreateSwapChain ==
    /\ pc = "rebuild"
    /\ (RecreateSome \/ RecreateNone)
    /\ UNCHANGED <<window_resize_request, control_flow, released, localVars,
                   inFlight, event, lastSubmit, lastSize, requested>>

\* The body of if window_resize_request.is_some() { .. }
ResizeRebuild ==
    /\ pipeline' = create_pipeline(unwrap(window_resize_request), pipeline.gen + 1)
    /\ command_buffers' = create_command_buffers(frame_buffers, pipeline', vertex_buffer)
    /\ window_resize_request' = None
    /\ tick' = StepOf(StepOf(tick, "pipeline"), "record")
    /\ pc' = "acquire"

\* if window_resize_request.is_some() { new pipeline, new command buffers }
RebuildPipeline ==
    /\ pc = "pipeline"
    /\ \/ ResizeRebuild
       \/ \* GraphicsPipeline::build or the recording fails: unwrap panics
          /\ tick' = Step("build_panic")
          /\ pc' = "panic"
          /\ UNCHANGED <<pipeline, command_buffers, window_resize_request>>
    /\ UNCHANGED <<recreate_swapchain, frame_buffers, control_flow, swap_chain,
                   released, localVars, inFlight, event, lastSubmit, lastSize,
                   requested>>

\* The Ok arm as it would be if a suboptimal image ended the tick the way an
\* out-of-date surface does.
AcquireOk_SuboptimalAborts ==
    \E i \in 0..(swap_chain.count - 1), s \in BOOLEAN :
        /\ image_i' = i
        /\ suboptimal' = s
        /\ recreate_swapchain' = (recreate_swapchain \/ s)
        /\ tick' = Step(IF s THEN "acquire_suboptimal" ELSE "acquire_ok")
        /\ pc' = IF s THEN "idle" ELSE "submit"

\* Ok(r) => r, then if suboptimal { recreate_swapchain = true }
AcquireOk ==
    \E i \in 0..(swap_chain.count - 1), s \in BOOLEAN :
        /\ image_i' = i
        /\ suboptimal' = s
        /\ recreate_swapchain' = (recreate_swapchain \/ s)
        /\ tick' = Step(IF s THEN "acquire_suboptimal" ELSE "acquire_ok")
        /\ pc' = "submit"

\* The out-of-date arm as it would be with a bare return.
AcquireOutOfDate_NoFlag ==
    /\ tick' = Step("acquire_outofdate")
    /\ pc' = "idle"
    /\ UNCHANGED <<image_i, suboptimal, recreate_swapchain>>

\* Err(AcquireError::OutOfDate) => { recreate_swapchain = true; return }
AcquireOutOfDate ==
    /\ recreate_swapchain' = TRUE
    /\ tick' = Step("acquire_outofdate")
    /\ pc' = "idle"
    /\ UNCHANGED <<image_i, suboptimal>>

\* The error arm as it would be if every acquisition error were retried.
AcquireError_Recovers ==
    /\ recreate_swapchain' = TRUE
    /\ tick' = Step("acquire_panic")
    /\ pc' = "idle"
    /\ UNCHANGED <<image_i, suboptimal>>

\* Err(e) => panic!(..)
AcquireError ==
    /\ tick' = Step("acquire_panic")
    /\ pc' = "panic"
    /\ UNCHANGED <<image_i, suboptimal, recreate_swapchain>>

\* match swapchain::acquire_next_image(..), then if suboptimal { .. }
AcquireNextImage ==
    /\ pc = "acquire"
    /\ (AcquireOk \/ AcquireOutOfDate \/ AcquireError)
    /\ UNCHANGED <<window_resize_request, frame_buffers, pipeline, command_buffers,
                   control_flow, swap_chain, released, execution, inFlight, event,
                   lastSubmit, lastSize, requested>>

\* The submission as it would be if it always presented image 0.
Submission_PresentsZero ==
    [cb |-> command_buffers[image_i + 1],
     index |-> image_i,
     presented |-> 0,
     acquired |-> image_i,
     frame_buffers |-> frame_buffers,
     pipeline |-> pipeline]

\* The command buffer handed to then_execute and the image handed to
\* then_swapchain_present, with the resources current at that moment.
Submission ==
    [cb |-> command_buffers[image_i + 1],
     index |-> image_i,
     presented |-> image_i,
     acquired |-> image_i,
     frame_buffers |-> frame_buffers,
     pipeline |-> pipeline]

\* sync::now(..).join(..).then_execute(..).unwrap()
\*     .then_swapchain_present(..).then_signal_fence_and_flush()
Submit ==
    /\ pc = "submit"
    /\ \/ /\ image_i + 1 \in DOMAIN command_buffers
          /\ \E e \in {"Ok", "OutOfDate", "Other"} :
               /\ execution' = e
               /\ inFlight' = (e = "Ok")
          /\ lastSubmit' = Submission
          /\ tick' = Step("submit")
          /\ pc' = "result"
       \/ \* command_buffers[image_i] out of bounds, or then_execute fails
          /\ tick' = Step("submit_panic")
          /\ pc' = "panic"
          /\ UNCHANGED <<execution, inFlight, lastSubmit>>
    /\ UNCHANGED <<progVars, image_i, suboptimal, event, lastSize, requested>>

\* The Ok arm as it would be if the future were dropped without a wait.
ExecutionOk_NoWait ==
    /\ execution = "Ok"
    /\ tick' = Step("dropped")
    /\ pc' = "idle"
    /\ UNCHANGED <<inFlight, recreate_swapchain>>

\* The Ok arm as it would be if a successful present cleared the flag.
ExecutionOk_ClearsFlag ==
    /\ execution = "Ok"
    /\ \/ /\ inFlight' = FALSE
          /\ tick' = Step("wait")
          /\ pc' = "idle"
       \/ /\ tick' = Step("wait_panic")
          /\ pc' = "panic"
          /\ UNCHANGED inFlight
    /\ recreate_swapchain' = FALSE

\* Ok(future) => future.wait(None).unwrap()
ExecutionOk ==
    /\ execution = "Ok"
    /\ \/ /\ inFlight' = FALSE
          /\ tick' = Step("wait")
          /\ pc' = "idle"
       \/ \* the wait fails: unwrap panics
          /\ tick' = Step("wait_panic")
          /\ pc' = "panic"
          /\ UNCHANGED inFlight
    /\ UNCHANGED recreate_swapchain

\* Err(FlushError::OutOfDate) => { recreate_swapchain = true }
ExecutionOutOfDate ==
    /\ execution = "OutOfDate"
    /\ recreate_swapchain' = TRUE
    /\ tick' = Step("flush_outofdate")
    /\ pc' = "idle"
    /\ UNCHANGED inFlight

\* The catch-all arm as it would be if the flush result were unwrapped.
ExecutionOther_Panics ==
    /\ execution = "Other"
    /\ tick' = Step("flush_panic")
    /\ pc' = "panic"
    /\ UNCHANGED <<inFlight, recreate_swapchain>>

\* Err(e) => { log::error!(..) }
ExecutionOther ==
    /\ execution = "Other"
    /\ tick' = Step("flush_error_logged")
    /\ pc' = "idle"
    /\ UNCHANGED <<inFlight, recreate_swapchain>>

\* match execution { .. }
ExecutionResult ==
    /\ pc = "result"
    /\ (ExecutionOk \/ ExecutionOutOfDate \/ ExecutionOther)
    /\ UNCHANGED <<window_resize_request, frame_buffers, pipeline, command_buffers,
                   control_flow, swap_chain, released, localVars, event,
                   lastSubmit, lastSize, requested>>

Next ==
    \/ CloseRequested
    \/ LoopDestroyed
    \/ Resized
    \/ OtherEvent
    \/ RedrawEventsCleared
    \/ RecreateSwapChain
    \/ RebuildPipeline
    \/ AcquireNextImage
    \/ Submit
    \/ ExecutionResult

Spec == Init /\ [][Next]_vars

\* ------------------------------------------------------------------ claims

EndOfTick == pc = "idle" /\ event = "RedrawEventsCleared"
InTick == event = "RedrawEventsCleared"

\* C1 (as claimed): in every redraw tick that submits, the command buffer
\* executed for the acquired image was recorded against the framebuffer of
\* that image in the current framebuffer set and against the current pipeline.
C1_NoStaleSubmission ==
    (pc = "result" /\ LastStep = "submit") =>
        /\ lastSubmit.cb.framebuffer = <<frame_buffers.gen, image_i>>
        /\ lastSubmit.cb.pipeline = pipeline

\* C2: a tick rebuilds the pipeline at most once; after a tick whose
\* swapchain rebuild succeeded, the resize flag is clear and the pipeline and
\* every command buffer of the table are built for the size of the last
\* Resized event, whatever sizes were requested before it.
C2_LastSizeWins ==
    /\ InTick => /\ Count({"pipeline"}) <= 1
                 /\ pipeline.gen <= tick.startPipeline.gen + 1
    /\ (InTick /\ Did("rebuild_ok") /\ pc \in {"acquire", "submit", "result", "idle"}
            /\ is_some(lastSize)) =>
        /\ window_resize_request = None
        /\ pipeline.viewport.dimensions = unwrap(lastSize)
        /\ \A k \in DOMAIN command_buffers : command_buffers[k].pipeline = pipeline

\* C2 witness: two Resized events with different sizes, then a tick that
\* rebuilt the pipeline, for the second size.
C2_Witness ==
    /\ EndOfTick /\ Did("pipeline")
    /\ Cardinality(tick.requested) >= 2
    /\ pipeline.viewport.dimensions = unwrap(lastSize)

\* C3: a tick whose swapchain rebuild returns None does not panic and does
\* nothing else: no acquisition, no submission, framebuffer set, pipeline and
\* command-buffer table as at the start of the tick, both flags as at the
\* start of the tick (one of them set), and the next redraw tick begins with
\* a rebuild attempt.
C3_FailedRebuildRetries ==
    /\ LastStep = "rebuild_none" => pc \in {"idle", "closed", "halted"}
    /\ (EndOfTick /\ LastStep = "rebuild_none") =>
        /\ tick.steps = <<"rebuild_none">>
        /\ window_resize_request = tick.startResize
        /\ recreate_swapchain = tick.startRecreate
        /\ is_some(window_resize_request) \/ recreate_swapchain
        /\ frame_buffers = tick.startFrameBuffers
        /\ pipeline = tick.startPipeline
        /\ command_buffers = tick.startCommandBuffers
    /\ (InTick /\ tick.prev = "rebuild_none") =>
        \/ tick.steps = <<>> /\ pc = "rebuild"
        \/ tick.steps # <<>> /\ tick.steps[1] \in RebuildSteps

\* C3 witness: a failed rebuild with both flags set, in a tick that was
\* itself the retry of a failed rebuild.
C3_Witness ==
    /\ EndOfTick /\ LastStep = "rebuild_none"
    /\ tick.prev = "rebuild_none"
    /\ is_some(tick.startResize) /\ tick.startRecreate

\* C4 (as claimed): at the end of a redraw tick whose submission was flushed
\* and waited successfully, the recreate flag is false exactly when a
\* swapchain rebuild succeeded in that tick.
C4_ClearedIffRebuilt ==
    (EndOfTick /\ LastStep = "wait") =>
        (~recreate_swapchain <=> Did("rebuild_ok"))

\* C4 (amended): at the end of such a tick the recreate flag is false exactly
\* when the tick's acquisition did not report suboptimal; the tick either had
\* no flag set at its start or rebuilt the swapchain successfully, and the
\* flag went from true to false over the tick only if the rebuild succeeded.
C4_FlagAfterPresent ==
    (EndOfTick /\ LastStep = "wait") =>
        /\ ~recreate_swapchain <=> ~Did("acquire_suboptimal")
        /\ Did("rebuild_ok") \/ (~tick.startRecreate /\ ~is_some(tick.startResize))
        /\ (tick.startRecreate /\ ~recreate_swapchain) => Did("rebuild_ok")

\* C4 witness: a tick that rebuilt the swapchain, acquired a suboptimal
\* image and presented it: the rebuild succeeded and the flag is set.
C4_Witness ==
    /\ EndOfTick /\ LastStep = "wait"
    /\ tick.startRecreate /\ Did("rebuild_ok")
    /\ Did("acquire_suboptimal") /\ recreate_swapchain

\* C5: a submission is in flight only between its flush and its wait inside
\* one tick: none is in flight when an event starts to be handled, when the
\* swapchain, the pipeline or the command buffers are rebuilt, or once
\* CloseRequested has released anything; a tick that flushed successfully and
\* ended has waited.
C5_SingleFrameInFlight ==
    /\ inFlight => pc \in {"result", "panic"}
    /\ (inFlight /\ pc = "panic") => LastStep = "wait_panic"
    /\ (EndOfTick /\ Did("submit") /\ execution = "Ok") => LastStep = "wait"
    /\ released # <<>> => ~inFlight

\* C5 witness: CloseRequested handled after a tick that rebuilt pipeline and
\* command buffers, submitted and waited, itself following a presented tick.
C5_Witness ==
    /\ pc = "closed" /\ released # <<>>
    /\ LastStep = "wait" /\ Did("pipeline")
    /\ tick.prev = "wait"

\* C6 (as claimed): once CloseRequested is handled, the resources have been
\* released in the order command buffers, pipeline, framebuffers, swapchain,
\* device.
C6_TeardownOrder ==
    pc = "closed" =>
        released = <<"command_buffers", "pipeline", "frame_buffers",
                     "swapchain", "device">>

\* C7 (as claimed): a tick whose acquisition reports out-of-date ends with
\* the recreate flag set, no submission and the resize flag as at the start
\* of the tick; the next redraw tick makes exactly one rebuild attempt, before
\* any acquisition.
C7_OutOfDateTick ==
    /\ (EndOfTick /\ LastStep = "acquire_outofdate") =>
        /\ recreate_swapchain
        /\ ~Did("submit")
        /\ window_resize_request = tick.startResize
    /\ (InTick /\ tick.prev = "acquire_outofdate") =>
        \/ tick.steps = <<>> /\ pc = "rebuild"
        \/ /\ tick.steps # <<>>
           /\ tick.steps[1] \in RebuildSteps
           /\ Count(RebuildSteps) = 1

\* C7 (amended): as claimed, except that the resize flag is as the rebuild
\* phase of the tick left it: clear if the tick rebuilt the pipeline, as at
\* the start of the tick otherwise.
C7_OutOfDateTickAmended ==
    /\ (EndOfTick /\ LastStep = "acquire_outofdate") =>
        /\ recreate_swapchain
        /\ ~Did("submit")
        /\ window_resize_request =
              IF Did("pipeline") THEN None ELSE tick.startResize
    /\ (InTick /\ tick.prev = "acquire_outofdate") =>
        \/ tick.steps = <<>> /\ pc = "rebuild"
        \/ /\ tick.steps # <<>>
           /\ tick.steps[1] \in RebuildSteps
           /\ Count(RebuildSteps) = 1

\* C7 witness: tick K+1 after an out-of-date tick K: it began with a resize
\* pending, rebuilt swapchain and pipeline once, and its own acquisition
\* reported out-of-date again.
C7_Witness ==
    /\ EndOfTick /\ tick.prev = "acquire_outofdate"
    /\ is_some(tick.startResize)
    /\ tick.steps = <<"rebuild_ok", "pipeline", "record", "acquire_outofdate">>

\* Position of the acquisition among the steps of the tick (0 if none).
AcquirePos ==
    IF \E k \in 1..Len(tick.steps) : tick.steps[k] \in AcquireSteps
    THEN CHOOSE k \in 1..Len(tick.steps) : tick.steps[k] \in AcquireSteps
    ELSE 0

\* C8: a tick whose acquisition reports suboptimal has the recreate flag set
\* from then on, goes on to the submission with the acquired image (it does
\* not return), presents that image when it submits, and rebuilds nothing
\* after the acquisition.
C8_SuboptimalPresents ==
    (InTick /\ Did("acquire_suboptimal")) =>
        /\ recreate_swapchain
        /\ LastStep = "acquire_suboptimal" => pc = "submit"
        /\ Did("submit") => /\ lastSubmit.presented = image_i
                            /\ lastSubmit.index = image_i
        /\ \A k \in 1..Len(tick.steps) :
              k > AcquirePos =>
                  tick.steps[k] \notin RebuildSteps \cup {"pipeline", "record"}

\* C8 witness: a suboptimal image presented and waited for, flag set.
C8_Witness ==
    /\ EndOfTick /\ Did("acquire_suboptimal")
    /\ Did("submit") /\ LastStep = "wait"
    /\ recreate_swapchain

\* C9: the recreate flag goes from true to false only in the step where the
\* swapchain rebuild succeeds, and the resize flag goes from set to clear
\* only in the pipeline rebuild that follows a successful swapchain rebuild
\* of the same tick.
C9_FlagsEdgeTriggered ==
    [][ /\ (recreate_swapchain /\ ~recreate_swapchain') =>
              (pc = "rebuild" /\ LastStep' = "rebuild_ok")
        /\ (is_some(window_resize_request) /\ ~is_some(window_resize_request')) =>
              (pc = "pipeline" /\ InTick /\ Did("rebuild_ok"))
      ]_vars

\* C9 witness: a tick that began with both flags set and cleared both.
C9_Witness ==
    /\ EndOfTick /\ Did("rebuild_ok")
    /\ tick.startRecreate /\ is_some(tick.startResize)
    /\ ~recreate_swapchain /\ window_resize_request = None

\* C10: the handling of a failed flush never ends the loop: on out-of-date
\* it sets the recreate flag, on any other failure it logs and leaves the
\* recreate flag alone; either way the resize flag and the resources are
\* left alone, nothing is waited for, and the driver is back waiting for the
\* next event.
C10_FlushFailureNotFatal ==
    [][ (pc = "result" /\ execution \in {"OutOfDate", "Other"}) =>
            /\ pc' = "idle"
            /\ control_flow' = "Wait"
            /\ ~inFlight'
            /\ UNCHANGED <<window_resize_request, frame_buffers, pipeline,
                           command_buffers, swap_chain, released>>
            /\ execution = "OutOfDate" =>
                  (recreate_swapchain' /\ LastStep' = "flush_outofdate")
            /\ execution = "Other" =>
                  (recreate_swapchain' = recreate_swapchain
                   /\ LastStep' = "flush_error_logged")
      ]_vars

\* C10 witness: a tick whose flush failed with an unrecognised error, after
\* a tick whose flush reported out-of-date.
C10_Witness ==
    /\ EndOfTick /\ LastStep = "flush_error_logged"
    /\ tick.prev = "flush_outofdate"

\* C11: a table that has just been recorded (at construction, or by the
\* pipeline rebuild of a tick) holds one command buffer per framebuffer of the
\* set it was recorded from, in the same order, and each recording is: begin
\* render pass on that framebuffer with the clear colour (0.1, 0.1, 0.1, 1.0),
\* bind the pipeline, bind the vertex buffer at slot 0, one draw of 3
\* vertices, 1 instance, first vertex 0, first instance 0, end render pass.
C11_OneRecordingPerFramebuffer ==
    (event = "none" \/ (InTick /\ LastStep = "record")) =>
        /\ Len(command_buffers) = frame_buffers.count
        /\ \A k \in 1..frame_buffers.count :
              LET c == command_buffers[k].commands
                  fb == <<frame_buffers.gen, k - 1>>
              IN  /\ command_buffers[k].framebuffer = fb
                  /\ Len(c) = 5
                  /\ c[1] = [op |-> "begin_render_pass",
                             args |-> <<fb, <<1, 1, 1, 10>>>>]
                  /\ c[2] = [op |-> "bind_pipeline_graphics",
                             args |-> <<pipeline.gen>>]
                  /\ c[3] = [op |-> "bind_vertex_buffers",
                             args |-> <<0, vertex_buffer>>]
                  /\ c[4] = [op |-> "draw", args |-> <<3, 1, 0, 0>>]
                  /\ c[5] = [op |-> "end_render_pass", args |-> <<>>]

\* C11 witness: a table just re-recorded for a rebuilt set of two framebuffers.
C11_Witness ==
    /\ InTick /\ LastStep = "record"
    /\ frame_buffers.count = 2 /\ frame_buffers.gen > 0
    /\ Len(command_buffers) = 2

\* C12: handling CloseRequested leaves the control flow at Exit (the write of
\* Wait at the handler's entry comes first), and from then on no step
\* rebuilds, acquires or submits anything: the only step left is the
\* LoopDestroyed invocation, which writes Wait and changes nothing else.
C12_CloseIsTerminal ==
    /\ [](pc = "closed" => control_flow = "Exit")
    /\ [][ (pc \in {"closed", "halted"}) =>
               /\ pc' \in {"closed", "halted"}
               /\ UNCHANGED <<window_resize_request, recreate_swapchain,
                              frame_buffers, pipeline, command_buffers,
                              swap_chain, released, inFlight, tick, lastSubmit>>
          ]_vars

\* C12 witness: the loop stopped after CloseRequested with a rebuild still
\* pending, the closure's last write of the control flow being Wait.
C12_Witness ==
    /\ pc = "halted" /\ event = "LoopDestroyed"
    /\ control_flow = "Wait"
    /\ recreate_swapchain /\ is_some(window_resize_request)

\* C13: the pipeline and the command-buffer table change only in the
\* pipeline rebuild of a tick that began with the resize flag set and whose
\* swapchain rebuild succeeded; a tick that rebuilt with only the recreate
\* flag set has a new framebuffer set, the recreate flag cleared by the
\* rebuild, and the pipeline and the table it began with.  (The vertex buffer
\* is created once and is no state of the loop.)
C13_RebuildOnlyOnResize ==
    /\ [][ (pipeline' # pipeline \/ command_buffers' # command_buffers) =>
               /\ pc = "pipeline" /\ InTick
               /\ Did("rebuild_ok")
               /\ is_some(tick.startResize) /\ is_some(window_resize_request)
          ]_vars
    /\ []((InTick /\ Did("rebuild_ok") /\ ~is_some(tick.startResize)) =>
               /\ frame_buffers.gen = tick.startFrameBuffers.gen + 1
               /\ LastStep = "rebuild_ok" => ~recreate_swapchain
               /\ ~Did("pipeline") /\ ~Did("record")
               /\ pipeline = tick.startPipeline
               /\ command_buffers = tick.startCommandBuffers)

\* C13 witness: a recreate-only tick that got a framebuffer set of another
\* size and presented with the pipeline and the table it began with.
C13_Witness ==
    /\ EndOfTick /\ Did("rebuild_ok") /\ LastStep = "wait"
    /\ tick.startRecreate /\ ~is_some(tick.startResize)
    /\ frame_buffers.count # tick.startFrameBuffers.count
    /\ command_buffers = tick.startCommandBuffers

\* C14: the handling of a Resized(new_size) event stores Some(new_size) in
\* the resize flag and does nothing else: recreate flag, framebuffer set,
\* pipeline, command-buffer table, swapchain and released resources are
\* unchanged, nothing is put in flight, and the driver takes no step of a
\* redraw tick (it is back waiting for the next event).
C14_ResizedOnlyRecords ==
    [][ (event' = "Resized") =>
            /\ is_some(window_resize_request')
            /\ window_resize_request' = lastSize'
            /\ UNCHANGED <<recreate_swapchain, frame_buffers, pipeline,
                           command_buffers, swap_chain, released, inFlight,
                           localVars, pc>>
            /\ pc = "idle" /\ tick'.steps = <<>>
            /\ control_flow' = "Wait"
      ]_vars

\* C14 witness: a Resized event handled while a rebuild was already asked
\* for by the recreate flag and after the swapchain was rebuilt once.
C14_Witness ==
    /\ event = "Resized" /\ pc = "idle"
    /\ recreate_swapchain /\ frame_buffers.gen > 0
    /\ window_resize_request = lastSize /\ is_some(lastSize)

\* Place of a step in the order of the redraw handler.
Rank(s) ==
    CASE s \in RebuildSteps -> 1
      [] s \in {"pipeline", "build_panic"} -> 2
      [] s = "record" -> 3
      [] s \in AcquireSteps -> 4
      [] s \in {"submit", "submit_panic"} -> 5
      [] OTHER -> 6

\* C15: the steps of a redraw tick are taken at most once each and in the
\* order rebuild attempt, pipeline rebuild, re-recording, acquisition,
\* submission, completion wait; the rebuild attempt is made exactly when a
\* flag was set at the start of the tick, the pipeline rebuild and the
\* re-recording exactly when the resize flag was set and the rebuild
\* succeeded; a tick whose rebuild succeeded and that ended went through the
\* acquisition; a submission follows a successful acquisition of the same
\* tick and a wait follows a submission.
C15_TickOrder ==
    /\ \A j, k \in 1..Len(tick.steps) :
          j < k => Rank(tick.steps[j]) < Rank(tick.steps[k])
    /\ tick.steps # <<>> =>
          (tick.steps[1] \in RebuildSteps
              <=> (is_some(tick.startResize) \/ tick.startRecreate))
    /\ Did("pipeline") <=> Did("record")
    /\ Did("pipeline") => (is_some(tick.startResize) /\ Did("rebuild_ok"))
    /\ (Did("rebuild_ok") /\ is_some(tick.startResize)
            /\ pc \notin {"pipeline", "panic"}) => Did("pipeline")
    /\ LastStep = "rebuild_ok" => pc \in {"pipeline", "acquire"}
    /\ LastStep = "record" => pc = "acquire"
    /\ (EndOfTick /\ Did("rebuild_ok")) => Count(AcquireSteps) = 1
    /\ Did("submit") => (Did("acquire_ok") \/ Did("acquire_suboptimal"))
    /\ Did("wait") => Did("submit")

\* C15 witness: a tick that took every step.
C15_Witness ==
    /\ EndOfTick
    /\ tick.steps = <<"rebuild_ok", "pipeline", "record", "acquire_suboptimal",
                      "submit", "wait">>

\* C16: in a tick that submitted, the index of the executed command buffer,
\* the index of the presented image and the index the acquisition of that
\* tick returned are the same, and the executed command buffer is the entry
\* of the table at that index, recorded for the framebuffer of that index.
C16_SubmitMatchesAcquire ==
    (InTick /\ Did("submit")) =>
        /\ lastSubmit.acquired = image_i
        /\ lastSubmit.index = lastSubmit.acquired
        /\ lastSubmit.presented = lastSubmit.acquired
        /\ lastSubmit.cb = command_buffers[lastSubmit.acquired + 1]
        /\ lastSubmit.cb.framebuffer[2] = lastSubmit.acquired

\* C16 witness: a tick that acquired image 1 and submitted.
C16_Witness ==
    /\ InTick
    /\ Did("submit")
    /\ Did("acquire_ok")
    /\ image_i = 1
    /\ lastSubmit.presented = 1

\* C17: whenever the handler is between steps outside the resize rebuild,
\* the command-buffer table has one entry per framebuffer of the current
\* set, so that every index an acquisition can return is an index of the
\* table and no submission fails on the table lookup.
C17_TableMatchesImages ==
    /\ pc \in {"idle", "rebuild", "acquire", "submit", "result"} =>
          Len(command_buffers) = frame_buffers.count
    /\ pc = "submit" => image_i + 1 \in DOMAIN command_buffers

\* C18: an acquisition that fails with an error other than out-of-date takes
\* the handler to the panic in that same step, with both flags as they were
\* and nothing submitted in the tick; nothing runs after the panic; and the
\* only acquisition outcome after which the tick ends and the loop goes on
\* is out-of-date.
C18_AcquireErrorFatal ==
    /\ [](Did("acquire_panic") =>
            /\ pc = "panic"
            /\ LastStep = "acquire_panic"
            /\ ~Did("submit")
            /\ lastSubmit = NoSubmit)
    /\ [][ /\ (pc = "acquire" /\ LastStep' = "acquire_panic") =>
                /\ pc' = "panic"
                /\ UNCHANGED <<window_resize_request, recreate_swapchain>>
           /\ (pc = "acquire" /\ pc' = "idle") =>
                /\ LastStep' = "acquire_outofdate"
                /\ recreate_swapchain'
           /\ pc # "panic"
         ]_vars

\* C18 witness: a tick that rebuilt the swapchain and then panicked on the
\* acquisition, the resize flag cleared by the rebuild and the recreate
\* flag still clear.
C18_Witness ==
    /\ pc = "panic"
    /\ LastStep = "acquire_panic"
    /\ Did("rebuild_ok")
    /\ ~recreate_swapchain

\* C19: the driver never locks a mutex it holds, in setup, in any step of a
\* redraw tick or in the close handler, and when no handler is running, or
\* the handler has panicked, it holds no lock; between the steps of a tick
\* it holds the engine lock only from the submission to the end of the tick.
C19_LockDiscipline ==
    /\ ~tick.blocked
    /\ tick.held \subseteq Mutexes
    /\ pc \in {"idle", "closed", "halted", "panic"} => tick.held = {}
    /\ pc \in {"rebuild", "pipeline", "acquire", "submit"} => tick.held = {}
    /\ pc = "result" => tick.held = {"graphical_engine"}

\* C19 witness: a tick that rebuilt, re-recorded two command buffers,
\* submitted and waited has taken each of the three locks and holds none.
C19_Witness ==
    /\ EndOfTick
    /\ Did("record")
    /\ Did("wait")
    /\ frame_buffers.count = 2
    /\ tick.taken = Mutexes
    /\ tick.held = {}

====
